---- MODULE Spec2Model ----
(***************************************************************************)
(* Model of elastinga.crud: the tiered post search (AND -> OR -> phrase    *)
(* suggestion -> OR retry), the suggestion resolver, the filter builders,  *)
(* the multi-field query builder and the result serializer.                *)
(*                                                                         *)
(* Python values whose runtime type the code inspects (None / str / list)  *)
(* are tagged records.  A text is the sequence of its tokens.  The engine  *)
(* is a deterministic function of the index contents and of the request;   *)
(* a transport failure is a nondeterministic outcome of every round trip.  *)
(***************************************************************************)
EXTENDS Naturals, Integers, Sequences, FiniteSets, TLC

VARIABLES
    index,      \* contents of the indices behind the connection: [twitter, instagram]
    pc,         \* position of the running call
    call,       \* the running call: entry point, class, text and kwargs
    pending,    \* the Search object whose execute() is in flight
    calls,      \* requests sent to the engine by the running call, in order
    replies,    \* how each round trip ended, in order: "ok" or "fail"
    result,     \* outcome of the call: a list of records or a raised error
    ser,        \* last direct serialize() call: input and output
    procs       \* concurrent callers of one connection: position, call,
                \* Search in flight and outcome of each

vars == <<index, pc, call, pending, calls, replies, result, ser, procs>>

----------------------------------------------------------------------------
(* Python values *)

None == [type |-> "None"]

Str(s) == [type |-> "str", v |-> s]

List(l) == [type |-> "list", v |-> l]

IntVal(n) == [type |-> "int", v |-> n]

\* isinstance(x, str)
IsStr(x) == x.type = "str"

\* Python truth value of None, a str or a list
Truthy(x) ==
    CASE x.type = "None" -> FALSE
      [] x.type = "str"  -> x.v # ""
      [] x.type = "list" -> x.v # <<>>

Range(s) == {s[i] : i \in 1..Len(s)}

\* d restricted to the keys in ks (a Python dict with fewer keys)
Restrict(d, ks) == [k \in (DOMAIN d) \cap ks |-> d[k]]

----------------------------------------------------------------------------
(* Program constants *)

DefaultSearchSize == 5

MaxErrors == 3

TwitterIndexName == "twitter"

InstagramIndexName == "instagram"

IndexNameOf(cls) ==
    IF cls = "TwitterSearch" THEN TwitterIndexName ELSE InstagramIndexName

----------------------------------------------------------------------------
(* elasticsearch_dsl.Search objects, as the code builds them *)

\* BaseSearch.search_base: a fresh Search on the class's index
search_base(cls) ==
    [index   |-> IndexNameOf(cls),
     filters |-> <<>>,
     source  |-> [includes |-> None, excludes |-> None],
     query   |-> None,
     size    |-> None,
     suggest |-> None]

\* search.filter(kind, field=value): one more clause in the filter context
SearchFilter(search, kind, field, value) ==
    [search EXCEPT !.filters =
        Append(@, [kind |-> kind, field |-> field, value |-> value])]

\* search.source(includes=...) / search.source(excludes=...): sets that key
\* of the _source projection and keeps the other key
SearchSource(search, key, value) ==
    [search EXCEPT !.source[key] = value]

\* search.query(Q("multi_match", query=text, operator=operator, fields=fields))
SearchQuery(search, text, operator, fields) ==
    [search EXCEPT !.query =
        [type |-> "multi_match", query |-> text,
         operator |-> operator, fields |-> fields]]

\* search.params(size=size)
SearchParams(search, size) == [search EXCEPT !.size = IntVal(size)]

\* search.suggest(name, text, <kind>={"field": field, "max_errors": 3})
SearchSuggest(search, name, text, kind, field) ==
    [search EXCEPT !.suggest =
        [name |-> name, text |-> text, kind |-> kind,
         body |-> [field |-> field, max_errors |-> MaxErrors]]]

\* Variant of _filter_username_owner that wraps a single string into a list
_filter_username_owner_wrapped(search, username_owner) ==
    SearchFilter(search, "terms", "username_owner",
                 IF IsStr(username_owner) THEN List(<<username_owner.v>>)
                                          ELSE username_owner)

\* TwitterSearch._filter_username_owner
_filter_username_owner(search, username_owner) ==
    SearchFilter(search,
                 IF IsStr(username_owner) THEN "term" ELSE "terms",
                 "username_owner", username_owner)

\* TwitterSearch._filter_username_timeline
_filter_username_timeline(search, username_timeline) ==
    SearchFilter(search,
                 IF IsStr(username_timeline) THEN "term" ELSE "terms",
                 "username_timeline", username_timeline)

\* InstagramSearch._filter_username
_filter_username(search, username) ==
    SearchFilter(search,
                 IF IsStr(username) THEN "term" ELSE "terms",
                 "username", username)

\* Variant of construct_multi_field_search that looks at excludes only when
\* includes is not given
construct_multi_field_search_elif(search, text, operator, fields, size, includes, excludes) ==
    LET s1 == IF Truthy(includes) THEN SearchSource(search, "includes", includes)
                                  ELSE search
        s2 == IF ~Truthy(includes) /\ Truthy(excludes)
                THEN SearchSource(s1, "excludes", excludes) ELSE s1
        s3 == SearchQuery(s2, text, operator, fields)
    IN  SearchParams(s3, size)

\* BaseSearch.construct_multi_field_search
construct_multi_field_search(search, text, operator, fields, size, includes, excludes) ==
    LET s1 == IF Truthy(includes) THEN SearchSource(search, "includes", includes)
                                  ELSE search
        s2 == IF Truthy(excludes) THEN SearchSource(s1, "excludes", excludes)
                                  ELSE s1
        s3 == SearchQuery(s2, text, operator, fields)
    IN  SearchParams(s3, size)

\* The Search that TwitterSearch._search_post executes
TwitterBuild(text, search_operator, kw) ==
    LET b0 == search_base("TwitterSearch")
        b1 == IF kw.username_timeline # None
                THEN _filter_username_timeline(b0, kw.username_timeline) ELSE b0
        b2 == IF kw.username_owner # None
                THEN _filter_username_owner(b1, kw.username_owner) ELSE b1
    IN  construct_multi_field_search(b2, text, search_operator, <<"text">>,
                                     kw.search_size, kw.includes, kw.excludes)

\* The Search that InstagramSearch._search_post executes
InstagramBuild(text, search_operator, kw) ==
    LET b0 == search_base("InstagramSearch")
        b1 == IF Truthy(kw.username) THEN _filter_username(b0, kw.username) ELSE b0
    IN  construct_multi_field_search(b1, text, search_operator, <<"text">>,
                                     kw.search_size, kw.includes, kw.excludes)

\* self._search_post up to search.execute(), by class
BuildSearch(cls, text, search_operator, kw) ==
    IF cls = "TwitterSearch" THEN TwitterBuild(text, search_operator, kw)
                             ELSE InstagramBuild(text, search_operator, kw)

----------------------------------------------------------------------------
(* The engine behind search.execute() *)

\* Phrase/term suggester dictionary of known misspellings, best candidate first
Misspellings ==
    [tok \in {"hapy", "yaer"} |->
        IF tok = "hapy" THEN <<"happy", "harpy">> ELSE <<"year">>]

\* Documents of the index a Search runs on
DocsOf(idx, search) ==
    IF search.index = TwitterIndexName THEN idx.twitter ELSE idx.instagram

\* One clause of the filter context: term is exact match, terms is membership
FilterPass(doc, f) ==
    IF f.kind = "term"
      THEN f.value.type = "str" /\ doc[f.field] = f.value.v
      ELSE f.value.type = "list" /\ doc[f.field] \in Range(f.value.v)

\* Query tokens found in one of the searched fields of the document
MatchedTokens(doc, q) ==
    {i \in 1..Len(q.query) :
        \E k \in 1..Len(q.fields) : q.query[i] \in Range(doc[q.fields[k]])}

\* Relevance score; a Search without query matches everything
Score(doc, q) ==
    IF q = None THEN 1 ELSE Cardinality(MatchedTokens(doc, q))

\* multi_match: operator "and" needs every token, "or" at least one
QueryMatch(doc, q) ==
    IF q = None THEN TRUE
    ELSE IF q.operator = "and"
      THEN Len(q.query) > 0 /\ MatchedTokens(doc, q) = 1..Len(q.query)
      ELSE MatchedTokens(doc, q) # {}

\* _source filtering: keep the included keys, then drop the excluded ones
Project(doc, source) ==
    LET inc == IF Truthy(source.includes)
                 THEN Range(source.includes.v) ELSE DOMAIN doc
        exc == IF Truthy(source.excludes)
                 THEN Range(source.excludes.v) ELSE {}
    IN  Restrict(doc, inc \ exc)

\* Positions of the matching documents, best score first, ties by position
RECURSIVE Rank(_, _, _)
Rank(docs, q, S) ==
    IF S = {} THEN <<>>
    ELSE LET best == CHOOSE i \in S : \A j \in S :
                        \/ Score(docs[i], q) > Score(docs[j], q)
                        \/ Score(docs[i], q) = Score(docs[j], q) /\ i <= j
         IN  <<best>> \o Rank(docs, q, S \ {best})

\* The first n elements of a sequence; no cap when n is None
Take(s, n) ==
    IF n = None THEN s
    ELSE IF n.v >= Len(s) THEN s ELSE SubSeq(s, 1, n.v)

\* The hits section of the raw response: a list of hit mappings
EngineHits(idx, search) ==
    LET docs   == DocsOf(idx, search)
        S      == {i \in 1..Len(docs) :
                      /\ \A k \in 1..Len(search.filters) :
                            FilterPass(docs[i], search.filters[k])
                      /\ QueryMatch(docs[i], search.query)}
        ranked == Take(Rank(docs, search.query, S), search.size)
    IN  [k \in 1..Len(ranked) |->
            [_index  |-> search.index,
             _id     |-> ranked[k],
             _score  |-> Score(docs[ranked[k]], search.query),
             _source |-> Project(docs[ranked[k]], search.source)]]

\* Words the suggester knows for a field: tokens of a text field, the whole
\* value of a keyword field
Vocabulary(docs, field) ==
    UNION {IF field = "text" THEN Range(docs[i].text)
           ELSE IF field \in DOMAIN docs[i] THEN {docs[i][field]} ELSE {} :
           i \in 1..Len(docs)}

\* Corrections of one token that exist in the vocabulary, best first
Candidates(docs, field, tok) ==
    IF tok \in DOMAIN Misspellings
      THEN SelectSeq(Misspellings[tok], LAMBDA c : c \in Vocabulary(docs, field))
      ELSE <<>>

\* Options of the first entry of the suggestion: whole corrected phrases for
\* the phrase suggester, corrections of the first token for the term suggester
SuggestOptions(docs, sg) ==
    LET field == sg.body.field
        P     == {i \in 1..Len(sg.text) : Candidates(docs, field, sg.text[i]) # <<>>}
        p     == CHOOSE i \in P : \A j \in P : i <= j
        fix(i, k) ==
            IF i \notin P THEN sg.text[i]
            ELSE IF i = p THEN Candidates(docs, field, sg.text[i])[k]
            ELSE Head(Candidates(docs, field, sg.text[i]))
    IN  IF sg.kind = "phrase"
          THEN IF P = {} THEN <<>>
               ELSE [k \in 1..Len(Candidates(docs, field, sg.text[p])) |->
                        [text |-> [i \in 1..Len(sg.text) |-> fix(i, k)]]]
          ELSE LET c == Candidates(docs, field, sg.text[1])
               IN  [k \in 1..Len(c) |-> [text |-> <<c[k]>>]]

\* The raw response mapping of a request.  The suggest section is missing
\* when the index holds no documents.
EngineRaw(idx, search) ==
    LET hits == [hits |-> [hits |-> EngineHits(idx, search)]]
        docs == DocsOf(idx, search)
    IN  IF search.suggest = None \/ docs = <<>>
          THEN hits
          ELSE [hits    |-> hits.hits,
                suggest |-> (search.suggest.name :>
                    <<[text    |-> search.suggest.text,
                       options |-> SuggestOptions(docs, search.suggest)]>>)]

\* elasticsearch_dsl.response.Response wrapping the raw mapping
Response(raw) == [cls |-> "Response", d |-> raw]

\* A plain dict response of elasticsearch-py
RawDict(raw) == [cls |-> "dict", d |-> raw]

\* AttrDict wrapper that the dsl hands out for nested mappings
AttrDict(d) == [cls |-> "AttrDict", d |-> d]

\* AttrDict.to_dict()
to_dict(hit) == hit.d

\* search.execute(): the dsl Response of the request
Execute(idx, search) == Response(EngineRaw(idx, search))

----------------------------------------------------------------------------
(* BaseSearch.serialize *)

\* Variant of _hit_dsl_conversor that hands out the wrapped hit as it is
_hit_dsl_conversor_wrapped(hit, include_meta) ==
    IF include_meta THEN hit ELSE to_dict(hit)._source

\* BaseSearch._hit_dsl_conversor
_hit_dsl_conversor(hit, include_meta) ==
    IF include_meta THEN to_dict(hit) ELSE to_dict(hit)._source

\* Variant of _hit_conversor with the sense of include_meta inverted
_hit_conversor_inverted(hit, include_meta) ==
    IF include_meta THEN hit._source ELSE hit

\* BaseSearch._hit_conversor
_hit_conversor(hit, include_meta) ==
    IF include_meta THEN hit ELSE hit._source

\* response["hits"]["hits"]: wrapped hits from a Response, mappings from a dict
ResponseHits(response) ==
    LET raw == response.d.hits.hits
    IN  IF response.cls = "Response"
          THEN [i \in 1..Len(raw) |-> AttrDict(raw[i])]
          ELSE raw

\* conversor(hit, include_meta) with the conversor serialize picked
Conversor(response, hit, include_meta) ==
    IF response.cls = "Response"
      THEN _hit_dsl_conversor(hit, include_meta)
      ELSE _hit_conversor(hit, include_meta)

\* Variant of serialize that emits the records last hit first
serialize_reversed(response, include_meta) ==
    LET hits == ResponseHits(response)
    IN  [i \in 1..Len(hits) |->
            Conversor(response, hits[Len(hits) + 1 - i], include_meta)]

\* BaseSearch.serialize
serialize(response, include_meta) ==
    LET hits == ResponseHits(response)
    IN  [i \in 1..Len(hits) |-> Conversor(response, hits[i], include_meta)]

----------------------------------------------------------------------------
(* Bounds and inputs *)

\* Largest number of documents an index holds
MaxDocs == 2

\* Largest number of hits of a response handed to serialize directly
MaxHits == 2

\* Number of callers that share the connection
NumProcs == 2

TwitterDoc(text, owner, timeline) ==
    [text |-> text, username_owner |-> owner, username_timeline |-> timeline]

InstagramDoc(text, username) == [text |-> text, username |-> username]

\* The n-th document of the Twitter index; the third is a copy of the first
TwitterPool(n) ==
    CASE n = 1 -> TwitterDoc(<<"happy", "new", "year">>, "alice", "bob")
      [] n = 2 -> TwitterDoc(<<"new", "cat", "harpy">>, "bob", "bob")
      [] n = 3 -> TwitterDoc(<<"happy", "new", "year">>, "alice", "bob")
      [] OTHER -> TwitterDoc(<<"year", "cat">>, "alice", "alice")

\* The n-th document of the Instagram index
InstagramPool(n) ==
    CASE n = 1 -> InstagramDoc(<<"happy", "new", "year">>, "alice")
      [] n = 2 -> InstagramDoc(<<"new", "cat", "harpy">>, "bob")
      [] n = 3 -> InstagramDoc(<<"happy", "new", "year">>, "alice")
      [] OTHER -> InstagramDoc(<<"year", "cat">>, "alice")

\* Index contents with n documents per index
Corpus(n) ==
    [twitter   |-> [i \in 1..n |-> TwitterPool(i)],
     instagram |-> [i \in 1..n |-> InstagramPool(i)]]

Classes == {"TwitterSearch", "InstagramSearch"}

Texts ==
    {<<"happy", "new", "year">>, <<"new", "cat", "zzz">>,
     <<"hapy", "yaer">>, <<"zzz">>}

Sizes == {DefaultSearchSize, 1}

OwnerValues == {None, Str("alice"), List(<<"alice">>), Str("")}

TimelineValues == {None, Str("bob"), List(<<"bob">>)}

UsernameValues == {None, Str("alice"), List(<<"alice">>), Str(""), List(<<>>)}

IncludesValues == {None, List(<<>>), List(<<"text">>)}

ExcludesValues == {None, List(<<"text">>)}

\* Keyword arguments of TwitterSearch._search_post
TwitterKwargs ==
    [search_size : Sizes, username_owner : OwnerValues,
     username_timeline : TimelineValues, includes : IncludesValues,
     excludes : ExcludesValues, include_meta : BOOLEAN]

\* Keyword arguments of InstagramSearch._search_post
InstagramKwargs ==
    [search_size : Sizes, username : UsernameValues,
     includes : IncludesValues, excludes : ExcludesValues,
     include_meta : BOOLEAN]

KwargsOf(cls) == IF cls = "TwitterSearch" THEN TwitterKwargs ELSE InstagramKwargs

SuggestionTypes == {"phrase", "term", "completion"}

SuggestFields == {"text", "username"}

SuggestionNames == {"post_suggest", "s1"}

\* Hit mappings for direct serialize calls; the third has the body of the first
HitPool ==
    {[_index |-> TwitterIndexName, _id |-> i, _score |-> 4 - i,
      _source |-> TwitterPool(i)] : i \in 1..3}

\* All sequences over S of length at most n
SeqsUpTo(S, n) == UNION {[1..k -> S] : k \in 0..n}

----------------------------------------------------------------------------
(* Outcomes *)

Ok(value) == [kind |-> "ok", value |-> value]

Raise(exc) == [kind |-> "raise", exc |-> exc]

NoResult == [kind |-> "none"]

NoCall == [op |-> "none"]

ProcIds == 1..NumProcs

\* A caller that has not called yet
IdleProc == [pc |-> "idle", call |-> NoCall, pending |-> None, result |-> NoResult]

----------------------------------------------------------------------------
(* BaseSearch.suggest, split at its round trip *)

\* Variant of SuggestRequest without the type check: any other type is sent
\* as a term suggestion
SuggestRequestUnchecked(cls, text, field_name, suggestion_type, suggestion_name) ==
    Ok(SearchSuggest(search_base(cls), suggestion_name, text,
                     IF suggestion_type = "phrase" THEN "phrase" ELSE "term",
                     field_name))

\* suggest up to search.execute(): the type check, then the request
SuggestRequest(cls, text, field_name, suggestion_type, suggestion_name) ==
    IF suggestion_type \notin {"phrase", "term"}
      THEN Raise("ValueError")
      ELSE Ok(SearchSuggest(search_base(cls), suggestion_name, text,
                            suggestion_type, field_name))

\* Variant of SuggestResult that turns a missing suggest section into no
\* candidates
SuggestResultEmptyOnMissing(response, suggestion_name) ==
    IF "suggest" \notin DOMAIN response.d
      THEN Ok(<<>>)
      ELSE LET suggestions == response.d.suggest[suggestion_name][1]
           IN  Ok([i \in 1..Len(suggestions.options) |->
                      suggestions.options[i].text])

\* suggest after search.execute(): the texts of the options of the first entry
SuggestResult(response, suggestion_name) ==
    IF "suggest" \notin DOMAIN response.d
      THEN Raise("NotImplementedError")
      ELSE LET suggestions == response.d.suggest[suggestion_name][1]
           IN  Ok([i \in 1..Len(suggestions.options) |->
                      suggestions.options[i].text])

----------------------------------------------------------------------------
(* The state machine *)

Init ==
    /\ index \in {Corpus(n) : n \in 0..MaxDocs}
    /\ pc = "idle"
    /\ call = NoCall
    /\ pending = None
    /\ calls = <<>>
    /\ replies = <<>>
    /\ result = NoResult
    /\ ser = None
    /\ procs = [p \in ProcIds |-> IdleProc]

\* Finish the call with an outcome
Finish(outcome) ==
    /\ pc' = "done"
    /\ pending' = None
    /\ result' = outcome
    /\ UNCHANGED calls

\* Send a request to the engine and wait for its reply at position p
Send(search, p) ==
    /\ pc' = p
    /\ pending' = search
    /\ calls' = Append(calls, search)
    /\ UNCHANGED result

\* search_post(text, **kwargs) is called: the AND query is built and sent
SearchPost(cls, text, kw) ==
    /\ pc = "idle"
    /\ call' = [op |-> "search_post", cls |-> cls, text |-> text, kw |-> kw]
    /\ ser' = None
    /\ Send(BuildSearch(cls, text, "and", kw), "and")
    /\ UNCHANGED <<procs, index, replies>>

\* Variant of AndReply that runs the OR query whatever the AND query found
AndReplyNoEarlyReturn ==
    /\ pc = "and"
    /\ replies' = Append(replies, "ok")
    /\ Send(BuildSearch(call.cls, call.text, "or", call.kw), "or")
    /\ UNCHANGED <<procs, index, call, ser>>

\* The AND query returns: its records if any, else the OR query is sent
AndReply ==
    /\ pc = "and"
    /\ replies' = Append(replies, "ok")
    /\ LET posts == serialize(Execute(index, pending), call.kw.include_meta)
       IN  IF posts # <<>>
             THEN Finish(Ok(posts))
             ELSE Send(BuildSearch(call.cls, call.text, "or", call.kw), "or")
    /\ UNCHANGED <<procs, index, call, ser>>

\* The OR query returns: its records if any, else suggest_post asks the
\* phrase suggester on field text
OrReply ==
    /\ pc = "or"
    /\ replies' = Append(replies, "ok")
    /\ LET posts == serialize(Execute(index, pending), call.kw.include_meta)
           req   == SuggestRequest(call.cls, call.text, "text", "phrase",
                                   "post_suggest")
       IN  IF posts # <<>>
             THEN Finish(Ok(posts))
             ELSE IF req.kind = "raise" THEN Finish(req)
                                        ELSE Send(req.value, "suggest")
    /\ UNCHANGED <<procs, index, call, ser>>

\* suggest(text, field_name, suggestion_type, suggestion_name) is called directly
Suggest(cls, text, field_name, suggestion_type, suggestion_name) ==
    /\ pc = "idle"
    /\ call' = [op |-> "suggest", cls |-> cls, text |-> text,
                field_name |-> field_name, suggestion_type |-> suggestion_type,
                suggestion_name |-> suggestion_name]
    /\ ser' = None
    /\ LET req == SuggestRequest(cls, text, field_name, suggestion_type,
                                 suggestion_name)
       IN  IF req.kind = "raise" THEN Finish(req)
                                 ELSE Send(req.value, "suggest")
    /\ UNCHANGED <<procs, index, replies>>

\* Variant of SuggestReply that retries without the caller's keyword
\* arguments, that is with the defaults of _search_post
SuggestReplyDefaultKwargs ==
    /\ pc = "suggest"
    /\ replies' = Append(replies, "ok")
    /\ LET suggested_text == SuggestResult(Execute(index, pending),
                                           pending.suggest.name)
           defaults == [k \in DOMAIN call.kw |->
                           CASE k = "search_size"  -> DefaultSearchSize
                             [] k = "include_meta" -> FALSE
                             [] OTHER              -> None]
       IN  IF suggested_text.kind = "raise" \/ call.op = "suggest"
             THEN Finish(suggested_text)
             ELSE IF suggested_text.value # <<>>
               THEN Send(BuildSearch(call.cls, suggested_text.value[1], "or",
                                     defaults), "retry")
               ELSE Finish(Ok(<<>>))
    /\ UNCHANGED <<procs, index, call, ser>>

\* Variant of SuggestReply that retries with the last candidate
SuggestReplyLastCandidate ==
    /\ pc = "suggest"
    /\ replies' = Append(replies, "ok")
    /\ LET suggested_text == SuggestResult(Execute(index, pending),
                                           pending.suggest.name)
       IN  IF suggested_text.kind = "raise" \/ call.op = "suggest"
             THEN Finish(suggested_text)
             ELSE IF suggested_text.value # <<>>
               THEN Send(BuildSearch(call.cls,
                                     suggested_text.value[Len(suggested_text.value)],
                                     "or", call.kw), "retry")
               ELSE Finish(Ok(<<>>))
    /\ UNCHANGED <<procs, index, call, ser>>

\* The suggestion request returns.  A direct suggest call returns the
\* candidates; suggest_post retries the OR query with the first candidate or
\* returns an empty list
SuggestReply ==
    /\ pc = "suggest"
    /\ replies' = Append(replies, "ok")
    /\ LET suggested_text == SuggestResult(Execute(index, pending),
                                           pending.suggest.name)
       IN  IF suggested_text.kind = "raise" \/ call.op = "suggest"
             THEN Finish(suggested_text)
             ELSE IF suggested_text.value # <<>>
               THEN Send(BuildSearch(call.cls, suggested_text.value[1], "or",
                                     call.kw), "retry")
               ELSE Finish(Ok(<<>>))
    /\ UNCHANGED <<procs, index, call, ser>>

\* Variant of RetryReply that asks the suggester again after an empty retry
RetryReplyAgain ==
    /\ pc = "retry"
    /\ replies' = Append(replies, "ok")
    /\ LET posts == serialize(Execute(index, pending), call.kw.include_meta)
       IN  IF posts # <<>>
             THEN Finish(Ok(posts))
             ELSE Send(SearchSuggest(search_base(call.cls), "post_suggest",
                                     pending.query.query, "phrase", "text"),
                       "suggest")
    /\ UNCHANGED <<procs, index, call, ser>>

\* The OR query on the corrected text returns: its records, empty or not
RetryReply ==
    /\ pc = "retry"
    /\ replies' = Append(replies, "ok")
    /\ Finish(Ok(serialize(Execute(index, pending), call.kw.include_meta)))
    /\ UNCHANGED <<procs, index, call, ser>>

\* Variant of EngineFail in which a failed AND query counts as no result
EngineFailSwallowed ==
    /\ pc \in {"and", "or", "suggest", "retry"}
    /\ replies' = Append(replies, "fail")
    /\ IF pc = "and"
         THEN Send(BuildSearch(call.cls, call.text, "or", call.kw), "or")
         ELSE Finish(Raise("TransportError"))
    /\ UNCHANGED <<procs, index, call, ser>>

\* The round trip in flight fails: the error is raised to the caller
EngineFail ==
    /\ pc \in {"and", "or", "suggest", "retry"}
    /\ replies' = Append(replies, "fail")
    /\ Finish(Raise("TransportError"))
    /\ UNCHANGED <<procs, index, call, ser>>

\* The caller has the outcome; the next call starts from scratch
Return ==
    /\ pc = "done"
    /\ pc' = "idle"
    /\ call' = NoCall
    /\ calls' = <<>>
    /\ replies' = <<>>
    /\ result' = NoResult
    /\ UNCHANGED <<procs, index, pending, ser>>

\* serialize(response, include_meta) is called directly on a response of
\* either shape
Serialize(raw, shape, include_meta) ==
    /\ pc = "idle"
    /\ LET response == IF shape = "Response" THEN Response(raw) ELSE RawDict(raw)
       IN  ser' = [raw |-> raw, shape |-> shape, include_meta |-> include_meta,
                   out |-> serialize(response, include_meta)]
    /\ UNCHANGED <<procs, index, pc, call, pending, calls, replies, result>>

Next ==
    \/ \E cls \in Classes, text \in Texts :
          \E kw \in KwargsOf(cls) : SearchPost(cls, text, kw)
    \/ AndReply
    \/ OrReply
    \/ \E cls \in Classes, text \in Texts, f \in SuggestFields,
          t \in SuggestionTypes, n \in SuggestionNames : Suggest(cls, text, f, t, n)
    \/ SuggestReply
    \/ RetryReply
    \/ EngineFail
    \/ Return

Spec == Init /\ [][Next]_vars

\* Direct calls of serialize on responses of both shapes
NextSerialize ==
    \E hits \in SeqsUpTo(HitPool, MaxHits), shape \in {"Response", "dict"},
       im \in BOOLEAN : Serialize([hits |-> [hits |-> hits]], shape, im)

SpecSerialize == Init /\ [][NextSerialize]_vars

----------------------------------------------------------------------------
(* Several callers on one connection, interleaved at the round trips *)

\* The calls the concurrent callers make
ConcurrentCalls ==
    {[op |-> "search_post", cls |-> "TwitterSearch",
      text |-> <<"happy", "new", "year">>,
      kw |-> [search_size |-> DefaultSearchSize, username_owner |-> None,
              username_timeline |-> None, includes |-> None,
              excludes |-> None, include_meta |-> FALSE]],
     [op |-> "search_post", cls |-> "TwitterSearch",
      text |-> <<"hapy", "yaer">>,
      kw |-> [search_size |-> 1, username_owner |-> Str("alice"),
              username_timeline |-> None, includes |-> List(<<"text">>),
              excludes |-> None, include_meta |-> TRUE]],
     [op |-> "search_post", cls |-> "InstagramSearch",
      text |-> <<"new", "cat", "zzz">>,
      kw |-> [search_size |-> DefaultSearchSize,
              username |-> List(<<"alice">>), includes |-> None,
              excludes |-> None, include_meta |-> FALSE]],
     [op |-> "suggest", cls |-> "TwitterSearch", text |-> <<"hapy", "yaer">>,
      field_name |-> "text", suggestion_type |-> "term",
      suggestion_name |-> "s1"]}

\* The caller has its outcome
ProcDone(pr, outcome) ==
    [pr EXCEPT !.pc = "done", !.pending = None, !.result = outcome]

\* The caller has sent a request and waits for the reply at position p
ProcSent(pr, search, p) == [pr EXCEPT !.pc = p, !.pending = search]

\* The caller after the first step of its call c: the AND query of
\* search_post, or the type check and the request of suggest
ProcCalled(c) ==
    LET pr == [IdleProc EXCEPT !.call = c]
    IN  IF c.op = "search_post"
          THEN ProcSent(pr, BuildSearch(c.cls, c.text, "and", c.kw), "and")
          ELSE LET req == SuggestRequest(c.cls, c.text, c.field_name,
                                         c.suggestion_type, c.suggestion_name)
               IN  IF req.kind = "raise" THEN ProcDone(pr, req)
                                         ELSE ProcSent(pr, req.value, "suggest")

\* The caller after the reply to the executed Search: search_post and
\* suggest_post from one execute() to the next, as in AndReply, OrReply,
\* SuggestReply and RetryReply
ProcReplied(idx, pr, search) ==
    LET c        == pr.call
        response == Execute(idx, search)
    IN  CASE pr.pc = "and" ->
               LET posts == serialize(response, c.kw.include_meta)
               IN  IF posts # <<>>
                     THEN ProcDone(pr, Ok(posts))
                     ELSE ProcSent(pr, BuildSearch(c.cls, c.text, "or", c.kw), "or")
          [] pr.pc = "or" ->
               LET posts == serialize(response, c.kw.include_meta)
                   req   == SuggestRequest(c.cls, c.text, "text", "phrase",
                                           "post_suggest")
               IN  IF posts # <<>>
                     THEN ProcDone(pr, Ok(posts))
                     ELSE IF req.kind = "raise" THEN ProcDone(pr, req)
                                                ELSE ProcSent(pr, req.value, "suggest")
          [] pr.pc = "suggest" ->
               LET suggested_text ==
                       SuggestResult(response, pr.pending.suggest.name)
               IN  IF suggested_text.kind = "raise" \/ c.op = "suggest"
                     THEN ProcDone(pr, suggested_text)
                     ELSE IF suggested_text.value # <<>>
                       THEN ProcSent(pr, BuildSearch(c.cls, suggested_text.value[1],
                                                     "or", c.kw), "retry")
                       ELSE ProcDone(pr, Ok(<<>>))
          [] pr.pc = "retry" ->
               ProcDone(pr, Ok(serialize(response, c.kw.include_meta)))

\* Variant of ExecutedSearch in which the Search is kept on the object the
\* callers share, so that a caller may execute another caller's Search
ExecutedSearchShared(p) ==
    LET q == CHOOSE q \in ProcIds : procs[q].pending # None
    IN  procs[q].pending

\* The Search a caller executes: the local variable it built for this tier
ExecutedSearch(p) == procs[p].pending

\* Caller p makes its call
ProcCall(p, c) ==
    /\ procs[p].pc = "idle"
    /\ procs' = [procs EXCEPT ![p] = ProcCalled(c)]
    /\ UNCHANGED <<index, pc, call, pending, calls, replies, result, ser>>

\* The engine replies to the request of caller p
ProcReply(p) ==
    /\ procs[p].pc \in {"and", "or", "suggest", "retry"}
    /\ procs' = [procs EXCEPT ![p] = ProcReplied(index, procs[p], ExecutedSearch(p))]
    /\ UNCHANGED <<index, pc, call, pending, calls, replies, result, ser>>

\* The round trip of caller p fails
ProcFail(p) ==
    /\ procs[p].pc \in {"and", "or", "suggest", "retry"}
    /\ procs' = [procs EXCEPT ![p] = ProcDone(procs[p], Raise("TransportError"))]
    /\ UNCHANGED <<index, pc, call, pending, calls, replies, result, ser>>

NextConcurrent ==
    \/ \E p \in ProcIds, c \in ConcurrentCalls : ProcCall(p, c)
    \/ \E p \in ProcIds : ProcReply(p)
    \/ \E p \in ProcIds : ProcFail(p)

SpecConcurrent == Init /\ [][NextConcurrent]_vars

\* What a call returns or raises on its own when no round trip fails:
\* search_post, suggest_post and suggest run from start to end
AloneOutcome(idx, c) ==
    IF c.op = "suggest"
      THEN LET req == SuggestRequest(c.cls, c.text, c.field_name,
                                     c.suggestion_type, c.suggestion_name)
           IN  IF req.kind = "raise" THEN req
               ELSE SuggestResult(Execute(idx, req.value), c.suggestion_name)
      ELSE LET im  == c.kw.include_meta
               run(text, op) ==
                   serialize(Execute(idx, BuildSearch(c.cls, text, op, c.kw)), im)
               req == SuggestRequest(c.cls, c.text, "text", "phrase",
                                     "post_suggest")
               sug == SuggestResult(Execute(idx, req.value), "post_suggest")
           IN  IF run(c.text, "and") # <<>> THEN Ok(run(c.text, "and"))
               ELSE IF run(c.text, "or") # <<>> THEN Ok(run(c.text, "or"))
               ELSE IF sug.kind = "raise" THEN sug
               ELSE IF sug.value # <<>> THEN Ok(run(sug.value[1], "or"))
               ELSE Ok(<<>>)

----------------------------------------------------------------------------
(* Properties of search_post and suggest *)

\* The records the i-th request of the running search_post call yields
Posts(i) == serialize(Execute(index, calls[i]), call.kw.include_meta)

\* The request is a multi_match query with the given operator, no suggestion
IsQuery(search, operator) ==
    /\ search.suggest = None
    /\ search.query # None
    /\ search.query.operator = operator

\* The option texts of the first suggestion entry in the reply to request i
RawCandidates(i) ==
    LET entry == Execute(index, calls[i]).d.suggest[calls[i].suggest.name][1]
    IN  [k \in 1..Len(entry.options) |-> entry.options[k].text]

\* The reply to request i has a suggest section
HasSuggestSection(i) == "suggest" \in DOMAIN Execute(index, calls[i]).d

Returned == pc = "done" /\ result.kind = "ok"

\* C1: search_post sends the AND query first and the OR query second; a
\* non-empty AND result is returned and nothing else is sent; with an empty
\* AND result and a non-empty OR result the OR result is returned and no
\* suggestion request is sent.
C1_TierOrder ==
    call.op = "search_post" =>
        /\ Len(calls) >= 1
        /\ IsQuery(calls[1], "and")
        /\ Len(calls) >= 2 => IsQuery(calls[2], "or")
        /\ Posts(1) # <<>> =>
              /\ Len(calls) = 1
              /\ Returned => result.value = Posts(1)
        /\ (Posts(1) = <<>> /\ Returned) => Len(calls) >= 2
        /\ (Len(calls) >= 2 /\ Posts(2) # <<>>) =>
              /\ Len(calls) = 2
              /\ Returned => result.value = Posts(2)

\* An OR result was returned after an empty AND result
C1_Witness ==
    /\ call.op = "search_post"
    /\ Returned
    /\ Len(calls) = 2
    /\ Posts(1) = <<>>
    /\ Len(result.value) >= 2

\* C2: with empty AND and OR results search_post asks the phrase suggester
\* for the original text on field text; with a candidate it sends the OR
\* query for the first candidate and returns that result, empty or not;
\* without a candidate it returns the empty list and sends nothing more.
C2_SuggestionTier ==
    (call.op = "search_post" /\ Len(calls) >= 2
        /\ Posts(1) = <<>> /\ Posts(2) = <<>>) =>
        /\ Returned => Len(calls) >= 3
        /\ Len(calls) >= 3 =>
              /\ calls[3].query = None
              /\ calls[3].suggest # None
              /\ calls[3].suggest.kind = "phrase"
              /\ calls[3].suggest.text = call.text
              /\ calls[3].suggest.body.field = "text"
        /\ (Len(replies) >= 3 /\ replies[3] = "ok" /\ HasSuggestSection(3)) =>
              IF RawCandidates(3) # <<>>
                THEN /\ Len(calls) = 4
                     /\ IsQuery(calls[4], "or")
                     /\ calls[4].query.query = RawCandidates(3)[1]
                     /\ Returned => result.value = Posts(4)
                ELSE /\ Len(calls) = 3
                     /\ pc = "done"
                     /\ result = Ok(<<>>)

\* The retry with the first of two candidates found nothing and the empty
\* list was returned
C2_Witness ==
    /\ call.op = "search_post"
    /\ Returned
    /\ Len(calls) = 4
    /\ Len(RawCandidates(3)) >= 2
    /\ result.value = <<>>

\* The tier of a request
KindOf(search) ==
    IF search.suggest # None THEN "suggest" ELSE search.query.operator

TierKinds == <<"and", "or", "suggest", "or">>

\* C3: a search_post call makes at most four round trips, one at a time, in
\* the order AND, OR, suggestion, OR; the reply to the fourth ends the call.
C3_AtMostFourRoundTrips ==
    call.op = "search_post" =>
        /\ Len(calls) <= 4
        /\ \A i \in 1..Len(calls) : KindOf(calls[i]) = TierKinds[i]
        /\ Len(replies) <= Len(calls)
        /\ Len(replies) = Len(calls) <=> pc = "done"
        /\ pc # "done" => Len(calls) = Len(replies) + 1
        /\ pc = "retry" <=> (Len(calls) = 4 /\ Len(replies) = 3)

\* All four round trips were made
C3_Witness ==
    /\ call.op = "search_post"
    /\ pc = "done"
    /\ Len(replies) = 4
    /\ replies[4] = "ok"

\* C4: a failed round trip ends the call with the failure and is the last
\* request of the call; search_post sends a further request only after a
\* successful reply without records; a finished call has a list or an error.
C4_FailurePropagates ==
    /\ \A i \in 1..Len(replies) :
          replies[i] = "fail" =>
              /\ i = Len(replies)
              /\ Len(calls) = i
              /\ pc = "done"
              /\ result = Raise("TransportError")
    /\ call.op = "search_post" =>
          \A i \in 1..(Len(calls) - 1) :
              /\ replies[i] = "ok"
              /\ i <= 2 => Posts(i) = <<>>
    /\ pc = "done" => result.kind \in {"ok", "raise"}
    /\ pc # "done" => result = NoResult

\* The OR query failed after an empty AND result
C4_Witness ==
    /\ call.op = "search_post"
    /\ pc = "done"
    /\ replies = <<"ok", "fail">>
    /\ result = Raise("TransportError")

\* Position of the suggestion request among the requests of the call
SuggestIndex == IF call.op = "suggest" THEN 1 ELSE 3

C6_SuggestTypeCheck ==
    call.op = "suggest" =>
        IF call.suggestion_type \notin {"phrase", "term"}
          THEN /\ pc = "done"
               /\ calls = <<>>
               /\ replies = <<>>
               /\ result = Raise("ValueError")
          ELSE /\ Len(calls) = 1
               /\ calls[1].query = None
               /\ calls[1].suggest =
                    [name |-> call.suggestion_name, text |-> call.text,
                     kind |-> call.suggestion_type,
                     body |-> [field |-> call.field_name, max_errors |-> 3]]

\* suggest was called with an unsupported type
C6_Witness ==
    /\ call.op = "suggest"
    /\ call.suggestion_type = "completion"
    /\ result = Raise("ValueError")

\* C7: every filter clause of an executed query carries the caller's value
\* unchanged, as a term clause when the value is a string and as a terms
\* clause when it is a list; for each of the three filters the string "x" and
\* the list ["x"] give clauses of different kinds.
C7_TermVsTerms ==
    /\ call.op = "search_post" =>
          \A i \in 1..Len(calls) : \A k \in 1..Len(calls[i].filters) :
              LET f == calls[i].filters[k]
              IN  /\ f.field \in DOMAIN call.kw
                  /\ f.value = call.kw[f.field]
                  /\ f.kind = IF f.value.type = "str" THEN "term" ELSE "terms"
    /\ LET tw == search_base("TwitterSearch")
           ig == search_base("InstagramSearch")
           x  == Str("x")
           xs == List(<<"x">>)
       IN  /\ _filter_username_owner(tw, x).filters[1].kind = "term"
           /\ _filter_username_owner(tw, xs).filters[1].kind = "terms"
           /\ _filter_username_timeline(tw, x).filters[1].kind = "term"
           /\ _filter_username_timeline(tw, xs).filters[1].kind = "terms"
           /\ _filter_username(ig, x).filters[1].kind = "term"
           /\ _filter_username(ig, xs).filters[1].kind = "terms"

\* A Twitter query ran with a term clause on the owner and a terms clause on
\* the timeline
C7_Witness ==
    /\ call.op = "search_post"
    /\ Len(replies) >= 1
    /\ Len(calls[1].filters) = 2
    /\ \E k \in 1..2 : /\ calls[1].filters[k].field = "username_owner"
                       /\ calls[1].filters[k].kind = "term"
    /\ \E k \in 1..2 : /\ calls[1].filters[k].field = "username_timeline"
                       /\ calls[1].filters[k].kind = "terms"

----------------------------------------------------------------------------
(* Properties of serialize *)

Envelope == {"_id", "_score", "_index"}

\* The hits of the response of the last direct serialize call
SerHits == ser.raw.hits.hits

\* C8: without include_meta every record serialize emits is the _source of
\* its hit and has none of _id, _score, _index; with include_meta every
\* record has _id, _score, _index and the _source of its hit.
C8_IncludeMeta ==
    ser # None =>
        \A i \in (DOMAIN ser.out) \cap (DOMAIN SerHits) :
            IF ser.include_meta
              THEN /\ Envelope \subseteq DOMAIN ser.out[i]
                   /\ "_source" \in DOMAIN ser.out[i]
                   /\ ser.out[i]._source = SerHits[i]._source
              ELSE /\ Envelope \cap DOMAIN ser.out[i] = {}
                   /\ ser.out[i] = SerHits[i]._source

\* A raw mapping with two hits was serialized without the envelope
C8_Witness ==
    /\ ser # None
    /\ ser.shape = "dict"
    /\ ~ser.include_meta
    /\ Len(ser.out) = 2

\* The same hits in the other response shape
OtherShape(raw, shape) ==
    IF shape = "Response" THEN RawDict(raw) ELSE Response(raw)

\* C9: serialize gives the same output for a Response object and for a raw
\* mapping with the same hits, with and without include_meta.
C9_ShapeInvariance ==
    ser # None =>
        ser.out = serialize(OtherShape(ser.raw, ser.shape), ser.include_meta)

\* A Response object with hits was serialized with the envelope
C9_Witness ==
    /\ ser # None
    /\ ser.shape = "Response"
    /\ ser.include_meta
    /\ Len(ser.out) >= 1

\* C10: serialize emits one record per hit, the i-th record from the i-th
\* hit, so nothing is dropped, repeated, merged or reordered; no hits give
\* the empty list.
C10_OnePerHitInOrder ==
    ser # None =>
        /\ Len(ser.out) = Len(SerHits)
        /\ \A i \in 1..Len(SerHits) :
              ser.out[i] = IF ser.include_meta THEN SerHits[i]
                                               ELSE SerHits[i]._source
        /\ SerHits = <<>> => ser.out = <<>>

\* Two hits with equal bodies, the later document first, gave two equal
\* records
C10_Witness ==
    /\ ser # None
    /\ Len(SerHits) = 2
    /\ SerHits[1]._id > SerHits[2]._id
    /\ ~ser.include_meta
    /\ Len(ser.out) = 2
    /\ ser.out[1] = ser.out[2]

----------------------------------------------------------------------------
(* Properties of the query builder *)

\* includes / excludes arguments tried on construct_multi_field_search itself
ProjectionValues ==
    {None, List(<<>>), List(<<"text">>), List(<<"text", "username_owner">>)}

\* The key of the projection an argument leads to: the list when it is a
\* non-empty list, nothing otherwise
ProjectionKey(v) == IF Truthy(v) THEN v ELSE None

\* C11 (as amended): the query construct_multi_field_search returns carries
\* an include list exactly when includes is a non-empty list and an exclude
\* list exactly when excludes is a non-empty list, each as given, so with
\* both given it carries both; with neither given it carries no projection.
\* The filters of the base query, the text clause and the size are as given.
C11_ProjectionAsGiven ==
    /\ call.op = "search_post" =>
          \A i \in 1..Len(calls) :
              calls[i].query # None =>
                  calls[i].source =
                      [includes |-> ProjectionKey(call.kw.includes),
                       excludes |-> ProjectionKey(call.kw.excludes)]
    /\ \A inc \in ProjectionValues, exc \in ProjectionValues :
          \A base \in {search_base("TwitterSearch"),
                       _filter_username_owner(search_base("TwitterSearch"),
                                              Str("x"))} :
              LET s == construct_multi_field_search(
                           base, <<"zzz">>, "and", <<"text">>, 1, inc, exc)
              IN  /\ s.source = [includes |-> ProjectionKey(inc),
                                 excludes |-> ProjectionKey(exc)]
                  /\ s.filters = base.filters
                  /\ s.query = [type |-> "multi_match", query |-> <<"zzz">>,
                                operator |-> "and", fields |-> <<"text">>]
                  /\ s.size = IntVal(1)

\* A query ran that carries both an include list and an exclude list
C11_Witness ==
    /\ call.op = "search_post"
    /\ Len(replies) >= 1
    /\ calls[1].source.includes = List(<<"text">>)
    /\ calls[1].source.excludes = List(<<"text">>)

\* C11 (as stated): no executed query carries both an include list and an
\* exclude list.
C11_NeverBoth ==
    call.op = "search_post" =>
        \A i \in 1..Len(calls) :
            \/ calls[i].source.includes = None
            \/ calls[i].source.excludes = None

\* C13: the queries of one search_post call differ in nothing but the
\* operator (AND query to OR query) and the text (OR query to the retry, whose
\* text is the first candidate); each carries the caller's size, the field
\* list, the caller's projection lists and filter values, and every record
\* returned is serialized with the caller's include_meta.
C13_SameSettingsAcrossTiers ==
    call.op = "search_post" =>
        /\ \A i \in 1..Len(calls) :
              calls[i].query # None =>
                  /\ i \in {1, 2, 4}
                  /\ calls[i].index = IndexNameOf(call.cls)
                  /\ calls[i].size = IntVal(call.kw.search_size)
                  /\ calls[i].query.fields = <<"text">>
                  /\ calls[i].source.includes \in {None, call.kw.includes}
                  /\ calls[i].source.excludes \in {None, call.kw.excludes}
                  /\ \A k \in 1..Len(calls[i].filters) :
                        calls[i].filters[k].value =
                            call.kw[calls[i].filters[k].field]
        /\ calls[1].query.query = call.text
        /\ Len(calls) >= 2 =>
              calls[2] = [calls[1] EXCEPT !.query.operator = "or"]
        /\ Len(calls) >= 4 =>
              calls[4] = [calls[2] EXCEPT !.query.query = RawCandidates(3)[1]]
        /\ Returned =>
              \A j \in 1..Len(result.value) :
                  IF call.kw.include_meta
                    THEN Envelope \subseteq DOMAIN result.value[j]
                    ELSE Envelope \cap DOMAIN result.value[j] = {}

\* The retry ran with the caller's filter, size, projection and include_meta
\* and found records
C13_Witness ==
    /\ call.op = "search_post"
    /\ Returned
    /\ Len(calls) = 4
    /\ calls[4].filters # <<>>
    /\ calls[4].source.includes # None
    /\ call.kw.search_size = 1
    /\ call.kw.include_meta
    /\ result.value # <<>>

\* The filterable fields of a class
FilterFields(cls) ==
    IF cls = "TwitterSearch" THEN {"username_owner", "username_timeline"}
                             ELSE {"username"}

\* C14 (as stated): every executed query has exactly one filter clause on
\* each filterable field the caller gave a value other than None for, the
\* empty string and the empty list included, and no other clause.
C14_ClauseIffSupplied ==
    call.op = "search_post" =>
        \A i \in 1..Len(calls) :
            calls[i].query # None =>
                /\ \A k \in 1..Len(calls[i].filters) :
                      calls[i].filters[k].field \in FilterFields(call.cls)
                /\ \A f \in FilterFields(call.cls) :
                      Cardinality({k \in 1..Len(calls[i].filters) :
                                      calls[i].filters[k].field = f})
                          = IF call.kw[f] # None THEN 1 ELSE 0

----------------------------------------------------------------------------
(* Properties of concurrent calls *)

\* Every caller that has its outcome has the outcome of its call run alone,
\* or the failure of one of its own round trips
EachAsAlone ==
    \A p \in ProcIds :
        procs[p].pc = "done" =>
            \/ procs[p].result = AloneOutcome(index, procs[p].call)
            \/ procs[p].result = Raise("TransportError")

\* C12: calls of several callers on one connection, interleaved at the round
\* trips in any order, each end as they end when run alone (or with the
\* failure of one of their own round trips), and no step of a call changes
\* the index.
C12_InterleavedAsAlone == []EachAsAlone /\ [][index' = index]_vars

\* Two callers ran at the same time and both returned records, the first
\* after four round trips
C12_Witness ==
    /\ procs[1].pc = "done"
    /\ procs[1].call.op = "search_post"
    /\ procs[1].call.text = <<"hapy", "yaer">>
    /\ procs[1].result.kind = "ok"
    /\ procs[1].result.value # <<>>
    /\ procs[2].pc = "done"
    /\ procs[2].call.op = "search_post"
    /\ procs[2].call.cls = "InstagramSearch"
    /\ procs[2].result.kind = "ok"
    /\ procs[2].result.value # <<>>

====
